---- MODULE Spec2Model ----
(***************************************************************************)
(* A model of channels.py: the acoustic and the optical channel of the     *)
(* simulator, the shared random source that use() draws from, and the      *)
(* floating-point arithmetic the channels compute with.                    *)
(*                                                                         *)
(* Python floats are modelled as decimal floating-point numbers of four    *)
(* significant digits: [err |-> "ok", m |-> mantissa, e |-> exponent] is   *)
(* m * 10^e, with 1000 <= |m| <= 9999 or m = 0.  Every operation rounds    *)
(* its exact result to four digits (half away from zero), as an IEEE       *)
(* operation rounds to 53 bits.  A value whose err field is not "ok" is an *)
(* exception in flight: every operation passes on the exception of its     *)
(* first failing operand, as Python evaluates left to right.               *)
(*                                                                         *)
(* Three specifications share the variables.  Spec is the program: the two *)
(* channels are constructed and then every method is called.  SpecDet runs *)
(* the program twice, each run with its own random source and calls.       *)
(* SpecPer evaluates per and perRF, then again at a larger distance or     *)
(* with a larger packet.                                                   *)
(***************************************************************************)
EXTENDS Integers, Sequences, FiniteSets, TLC

-----------------------------------------------------------------------------
(* Decimal floating point *)

Abs(n) == IF n < 0 THEN -n ELSE n

Sgn(n) == IF n < 0 THEN -1 ELSE IF n > 0 THEN 1 ELSE 0

RECURSIVE Pow10Int(_)
Pow10Int(n) == IF n <= 0 THEN 1 ELSE 10 * Pow10Int(n - 1)

RECURSIVE NumDigits(_)
NumDigits(n) == IF n < 10 THEN 1 ELSE 1 + NumDigits(n \div 10)

Raise(name) == [err |-> name, m |-> 0, e |-> 0]

IsOk(a) == a.err = "ok"

\* The result v of an operation on a, or on a and b: an operand that is an
\* exception in flight is the result instead (the first one, as Python
\* evaluates left to right).
Lift1(a, v) == IF IsOk(a) THEN v ELSE a

Lift2(a, b, v) == IF ~IsOk(a) THEN a ELSE IF ~IsOk(b) THEN b ELSE v

\* The float of sign s and of mantissa r after rounding: a mantissa rounded
\* up to 10000 is renormalised.
NormCarry(s, r, e) ==
    IF r = 10000 THEN [err |-> "ok", m |-> s * 1000, e |-> e + 1]
    ELSE [err |-> "ok", m |-> s * r, e |-> e]

\* s * a * 10^e with a > 0 of k + 4 digits, rounded to four digits.
NormRound(s, a, k, e) ==
    IF k <= 0 THEN [err |-> "ok", m |-> s * a * Pow10Int(-k), e |-> e + k]
    ELSE NormCarry(s, (a + Pow10Int(k) \div 2) \div Pow10Int(k), e + k)

\* Rounds the exact value m * 10^e to four significant digits.
Norm(m, e) ==
    IF m = 0 THEN [err |-> "ok", m |-> 0, e |-> 0]
    ELSE NormRound(Sgn(m), Abs(m), NumDigits(Abs(m)) - 4, e)

\* The float literal m * 10^e, and float(n) of an int.
FL(m, e) == Norm(m, e)

FromInt(n) == Norm(n, 0)

NegOk(a) == [err |-> "ok", m |-> -a.m, e |-> a.e]

Neg(a) == Lift1(a, NegOk(a))

\* big + small, the exponent of big the larger one by d: big is kept exactly
\* with four guard digits, small is aligned to it.
AddAligned(big, small, d) ==
    IF d > 8 THEN big
    ELSE IF d <= 4 THEN Norm(big.m * Pow10Int(d) + small.m, small.e)
    ELSE Norm(big.m * 10000
                + Sgn(small.m) * (Abs(small.m) \div Pow10Int(d - 4)),
              big.e - 4)

AddOk(a, b) ==
    IF a.m = 0 THEN b
    ELSE IF b.m = 0 THEN a
    ELSE IF a.e >= b.e THEN AddAligned(a, b, a.e - b.e)
    ELSE AddAligned(b, a, b.e - a.e)

Add(a, b) == Lift2(a, b, AddOk(a, b))

Sub(a, b) == Add(a, Neg(b))

MulOk(a, b) == Norm(a.m * b.m, a.e + b.e)

Mul(a, b) == Lift2(a, b, MulOk(a, b))

\* ZeroDivisionError on a zero divisor.
DivOk(a, b) ==
    IF b.m = 0 THEN Raise("ZeroDivisionError")
    ELSE Norm(Sgn(a.m) * Sgn(b.m) * ((Abs(a.m) * 100000) \div Abs(b.m)),
              a.e - b.e - 5)

Div(a, b) == Lift2(a, b, DivOk(a, b))

\* a < b on two values (no exception in flight).
Less(a, b) ==
    IF Sgn(a.m) # Sgn(b.m) THEN Sgn(a.m) < Sgn(b.m)
    ELSE IF a.m = 0 THEN FALSE
    ELSE IF a.m > 0 THEN a.e < b.e \/ (a.e = b.e /\ a.m < b.m)
    ELSE a.e > b.e \/ (a.e = b.e /\ a.m < b.m)

LessEq(a, b) == ~Less(b, a)

RECURSIVE ISqrtSearch(_, _, _)
ISqrtSearch(n, lo, hi) ==
    IF lo >= hi THEN lo
    ELSE IF ((lo + hi + 1) \div 2) * ((lo + hi + 1) \div 2) <= n
    THEN ISqrtSearch(n, (lo + hi + 1) \div 2, hi)
    ELSE ISqrtSearch(n, lo, (lo + hi + 1) \div 2 - 1)

ISqrt(n) == ISqrtSearch(n, 0, 46340)

\* The square root of m * 10^e, e even.
SqrtEven(m, e) == Norm(ISqrt(m * 10000), (e - 4) \div 2)

\* math.sqrt: ValueError on a negative argument.
SqrtOk(a) ==
    IF a.m < 0 THEN Raise("ValueError")
    ELSE IF a.m = 0 THEN a
    ELSE IF a.e % 2 = 1 THEN SqrtEven(a.m * 10, a.e - 1)
    ELSE SqrtEven(a.m, a.e)

Sqrt(a) == Lift1(a, SqrtOk(a))

\* The fraction bits of log10(y / 1000), 1000 <= y < 10000, by repeated
\* squaring: bits binary digits, as an integer in units of 2^-bits.
RECURSIVE Log10Bits(_, _, _)
Log10Bits(y, bits, acc) ==
    IF bits = 0 THEN acc
    ELSE IF (y * y + 500) \div 1000 >= 10000
    THEN Log10Bits(((y * y + 500) \div 1000 + 5) \div 10, bits - 1,
                   2 * acc + 1)
    ELSE Log10Bits((y * y + 500) \div 1000, bits - 1, 2 * acc)

\* math.log10: ValueError on an argument <= 0.
Log10Ok(a) ==
    IF a.m <= 0 THEN Raise("ValueError")
    ELSE AddOk(FromInt(a.e + 3),
               Norm((Log10Bits(a.m, 12, 0) * 10000 + 2048) \div 4096, -4))

Log10(a) == Lift1(a, Log10Ok(a))

\* floor(a * 10^4) for |a| < 10000.
ToFixed(a) ==
    IF a.e + 4 >= 0 THEN a.m * Pow10Int(a.e + 4)
    ELSE IF a.e + 4 < -4 THEN (IF a.m < 0 THEN -1 ELSE 0)
    ELSE a.m \div Pow10Int(-(a.e + 4))

\* 1000 * 10^(i/50), i = 0 .. 50.
Pow10Table ==
    << 1000, 1047, 1096, 1148, 1202, 1259, 1318, 1380, 1445, 1514,
       1585, 1660, 1738, 1820, 1905, 1995, 2089, 2188, 2291, 2399,
       2512, 2630, 2754, 2884, 3020, 3162, 3311, 3467, 3631, 3802,
       3981, 4169, 4365, 4571, 4786, 5012, 5248, 5495, 5754, 6026,
       6310, 6607, 6918, 7244, 7586, 7943, 8318, 8710, 9120, 9550, 10000 >>

\* 10^(n + f / 10000), 0 <= f < 10000, between the entries lo and hi of
\* the table around f.
Pow10Interp(n, f, lo, hi) == Norm(lo + ((hi - lo) * (f % 200)) \div 200, n - 3)

\* 10^(x / 10000): OverflowError above the float range, 0.0 below it.
Pow10Fixed(x) ==
    IF x \div 10000 > 308 THEN Raise("OverflowError")
    ELSE IF x \div 10000 < -324 THEN Norm(0, 0)
    ELSE Pow10Interp(x \div 10000, x % 10000,
                     Pow10Table[(x % 10000) \div 200 + 1],
                     Pow10Table[(x % 10000) \div 200 + 2])

\* 10 ** a
Pow10Ok(a) ==
    IF a.e >= 1 THEN (IF a.m > 0 THEN Raise("OverflowError") ELSE Norm(0, 0))
    ELSE Pow10Fixed(ToFixed(a))

Pow10(a) == Lift1(a, Pow10Ok(a))

\* math.e ** a
Exp(a) == Pow10(Mul(a, FL(4343, -4)))

\* 10^7 * erfc(i/10), i = 0 .. 30.
ErfcTable ==
    << 10000000, 8875371, 7772974, 6713732, 5716076, 4795001, 3961439,
       3221988, 2578990, 2030918, 1572992, 1197949, 896860, 659921, 477149,
       338949, 236516, 162095, 109095, 72096, 46777, 29795, 18628, 11432,
       6885, 4070, 2360, 1343, 750, 411, 221 >>

\* erfc(x / 10000) between the entries lo and hi of the table around x;
\* below the table's last entry the value is under the resolution of
\* 1 - ber / 2.
ErfcInterp(x, lo, hi) == Norm(lo - ((lo - hi) \div 1000) * (x % 1000), -7)

ErfcFixed(x) ==
    IF x >= 30000 THEN Norm(0, 0)
    ELSE ErfcInterp(x, ErfcTable[x \div 1000 + 1], ErfcTable[x \div 1000 + 2])

\* math.erfc on an argument >= 0 (the callers pass a square root).
ErfcOk(a) == IF a.e >= 1 THEN Norm(0, 0) ELSE ErfcFixed(ToFixed(a))

Erfc(a) == Lift1(a, ErfcOk(a))

\* 1 - x2/2! + x4/4! - x6/6! + x8/8!
CosSeries(x2, x4, x6, x8) ==
    Add(Add(Add(Sub(FL(1, 0), Div(x2, FL(2, 0))), Div(x4, FL(24, 0))),
            Neg(Div(x6, FL(720, 0)))),
        Div(x8, FL(40320, 0)))

CosPowers(x2, x4) == CosSeries(x2, x4, MulOk(x4, x2), MulOk(x4, x4))

CosSquare(x2) == CosPowers(x2, MulOk(x2, x2))

\* math.cos, by its Taylor series to x^8 (the angles are below pi).
CosOk(a) == CosSquare(MulOk(a, a))

Cos(a) == Lift1(a, CosOk(a))

\* x ** n for an int n >= 0 (x ** 0 is 1.0 for every x).
RECURSIVE PowIntOk(_, _)
PowIntOk(x, n) == IF n = 0 THEN FL(1, 0) ELSE MulOk(PowIntOk(x, n - 1), x)

PowInt(x, n) == Lift1(x, PowIntOk(x, n))

\* x ** 2
Square(x) == Lift1(x, MulOk(x, x))

-----------------------------------------------------------------------------
(* The shared random source: random.random() *)

\* The streams of draws of the seeds the model runs with, each draw in
\* [0, 1), in units of 10^-4.
Streams ==
    << << 5000, 0, 5000, 9999, 0, 9999 >>,
       << 0, 5000, 9999, 5000, 0, 9999 >> >>

Seeds == DOMAIN Streams

\* The i-th draw of the stream of a seed.
Draw(seed, i) == FL(Streams[seed][i], -4)

\* The source is its seed and the number pos of draws consumed.  random()
\* returns the next draw of the stream and advances the source by one.
random(rng) ==
    [value |-> Draw(rng.seed, rng.pos + 1), rng |-> [rng EXCEPT !.pos = @ + 1]]

-----------------------------------------------------------------------------
(* AcousticChannel *)

kvalues == {FL(10, -1), FL(15, -1), FL(20, -1)}

soundSpeed == FL(1500, 0)

\* Fault seeded for C1: the range of s asserted as 0 <= s or s <= 1.
Acoustic_init_either_bound(k, s, w) ==
    IF ~(k \in kvalues) THEN [err |-> "AssertionError", obj |-> << >>]
    ELSE IF ~(LessEq(FL(0, 0), s) \/ LessEq(s, FL(1, 0)))
    THEN [err |-> "AssertionError", obj |-> << >>]
    ELSE IF ~LessEq(FL(0, 0), w)
    THEN [err |-> "AssertionError", obj |-> << >>]
    ELSE [err |-> "ok", obj |-> << [k |-> k, s |-> s, w |-> w] >>]

\* __init__: the three asserts, then the three assignments.  The result is
\* the object (a one-element sequence), or the AssertionError with no
\* object (the empty sequence).
Acoustic_init(k, s, w) ==
    IF ~(k \in kvalues) THEN [err |-> "AssertionError", obj |-> << >>]
    ELSE IF ~(LessEq(FL(0, 0), s) /\ LessEq(s, FL(1, 0)))
    THEN [err |-> "AssertionError", obj |-> << >>]
    ELSE IF ~LessEq(FL(0, 0), w)
    THEN [err |-> "AssertionError", obj |-> << >>]
    ELSE [err |-> "ok", obj |-> << [k |-> k, s |-> s, w |-> w] >>]

Acoustic_get_propagation_time(self, distance) == Div(distance, soundSpeed)

\* The two branches of thorp on f2 = frequency ** 2.
thorp_absorption(f2, frequency) ==
    IF Less(FL(4, -1), f2)
    THEN Add(Add(Div(Mul(FL(11, -2), f2), Add(FL(1, 0), f2)),
                 Mul(FL(44, 0), Div(f2, Add(FL(4100, 0), frequency)))),
             Add(Mul(Mul(FL(275, -2), FL(1, -4)), f2), FL(3, -3)))
    ELSE Add(Add(FL(2, -3), Mul(FL(11, -2), Div(f2, Add(FL(1, 0), f2)))),
             Mul(FL(11, -3), f2))

Acoustic_thorp(self, frequency) ==
    Div(thorp_absorption(Square(frequency), frequency), FL(1000, 0))

\* Fault seeded for C8: the absorption term subtracted from the spreading
\* term.
Acoustic_pathloss_minus(self, distance, frequency) ==
    Sub(Mul(Mul(FL(10, 0), self.k), Log10(distance)),
        Mul(distance, Acoustic_thorp(self, frequency)))

Acoustic_pathloss(self, distance, frequency) ==
    Add(Mul(Mul(FL(10, 0), self.k), Log10(distance)),
        Mul(distance, Acoustic_thorp(self, frequency)))

Acoustic_noise(self, frequency) ==
    LET nTurbulence0 == Sub(FL(17, 0), Mul(FL(30, 0), Log10(frequency)))
        nTurbulence  == Pow10(Mul(nTurbulence0, FL(1, -1)))
        nShipping0   == Sub(Add(Add(FL(40, 0),
                                    Mul(FL(20, 0), Sub(self.s, FL(5, -1)))),
                                Mul(FL(26, 0), Log10(frequency))),
                            Mul(FL(60, 0), Log10(Add(frequency, FL(3, -2)))))
        nShipping    == Pow10(Mul(nShipping0, FL(1, -1)))
        nWind0       == Sub(Add(Add(FL(50, 0), Mul(FL(75, -1), Sqrt(self.w))),
                                Mul(FL(20, 0), Log10(frequency))),
                            Mul(FL(40, 0), Log10(Add(frequency, FL(4, -1)))))
        nWind        == Pow10(Mul(nWind0, FL(1, -1)))
        nThermal0    == Sub(Mul(FL(20, 0), Log10(frequency)), FL(15, 0))
        nThermal     == Pow10(Mul(nThermal0, FL(1, -1)))
    IN  Mul(FL(10, 0),
            Log10(Add(Add(Add(nTurbulence, nShipping), nWind), nThermal)))

Acoustic_snr_dB(self, distance, frequency, Pt, psize, noise_bw) ==
    LET pl == Acoustic_pathloss(self, distance, frequency)
        nf == Mul(noise_bw, Acoustic_noise(self, frequency))
    IN  Sub(Sub(Pt, pl), nf)

\* snr names size, which no scope defines: evaluating the arguments of the
\* call of snr_dB raises NameError before anything is computed.
Acoustic_snr(self, distance, frequency, Pt, psize, noise_bw) ==
    Raise("NameError")

\* The default value of the parameter noise_bw of per and perRF.
noise_bw_default == FL(235, -2)

Acoustic_per(self, distance, frequency, Pt, psize, noise_bw) ==
    LET pl    == Acoustic_pathloss(self, distance, frequency)
        nf    == Mul(noise_bw, Acoustic_noise(self, frequency))
        snrdB == Sub(Sub(Pt, pl), nf)
        snr   == Pow10(Div(snrdB, FL(10, 0)))
        ber   == Mul(FL(5, -1), Erfc(Sqrt(snr)))
    IN  Sub(FL(1, 0), PowInt(Sub(FL(1, 0), ber), 8 * psize))

\* BPSK bit error rate with Rayleigh fading, of the value snr.
RayleighBer(snr) ==
    Mul(FL(5, -1), Sub(FL(1, 0), Sqrt(Div(snr, Add(FL(1, 0), snr)))))

\* Fault seeded for C6: a packet counted one byte longer than psize.
Acoustic_perRF_extra_byte(self, distance, frequency, Pt, psize, noise_bw) ==
    LET f     == frequency
        d     == distance
        pl    == Acoustic_pathloss(self, d, f)
        nf    == Mul(noise_bw, Acoustic_noise(self, f))
        snrdB == Sub(Sub(Pt, pl), nf)
        snr   == Pow10(Div(snrdB, FL(10, 0)))
        ber   == RayleighBer(snr)
    IN  Sub(FL(1, 0), PowInt(Sub(FL(1, 0), ber), 8 * (psize + 1)))

\* Fault seeded for C7: 1 + ber for 1 - ber under the power.
Acoustic_perRF_plus_ber(self, distance, frequency, Pt, psize, noise_bw) ==
    LET f     == frequency
        d     == distance
        pl    == Acoustic_pathloss(self, d, f)
        nf    == Mul(noise_bw, Acoustic_noise(self, f))
        snrdB == Sub(Sub(Pt, pl), nf)
        snr   == Pow10(Div(snrdB, FL(10, 0)))
        ber   == RayleighBer(snr)
    IN  Sub(FL(1, 0), PowInt(Add(FL(1, 0), ber), 8 * psize))

\* f = float(frequency) and d = float(distance) are the arguments themselves:
\* every number of the model is a float.
Acoustic_perRF(self, distance, frequency, Pt, psize, noise_bw) ==
    LET f     == frequency
        d     == distance
        pl    == Acoustic_pathloss(self, d, f)
        nf    == Mul(noise_bw, Acoustic_noise(self, f))
        snrdB == Sub(Sub(Pt, pl), nf)
        snr   == Pow10(Div(snrdB, FL(10, 0)))
        ber   == RayleighBer(snr)
    IN  Sub(FL(1, 0), PowInt(Sub(FL(1, 0), ber), 8 * psize))

\* Fault seeded for C4: a failed attempt is retried once, on the next draw.
not_random_less_retry(per, rng) ==
    IF ~IsOk(per) THEN [err |-> per.err, ret |-> FALSE, rng |-> rng]
    ELSE [err |-> "ok",
          ret |-> ~Less(random(rng).value, per)
                    \/ ~Less(random(random(rng).rng).value, per),
          rng |-> random(rng).rng]

\* return not (random() < per): an exception raised while per was computed
\* leaves before the draw.  The result is the boolean returned (or the
\* exception) and the random source after.
not_random_less(per, rng) ==
    IF ~IsOk(per) THEN [err |-> per.err, ret |-> FALSE, rng |-> rng]
    ELSE [err |-> "ok", ret |-> ~Less(random(rng).value, per),
          rng |-> random(rng).rng]

\* Fault seeded for C3: use decides on the AWGN per.
Acoustic_use_awgn(self, rng, frequency, power, distance, packetSize) ==
    not_random_less(Acoustic_per(self, distance, frequency, power,
                                 packetSize, noise_bw_default), rng)

\* Fault seeded for C10: the draw taken before the PER is computed.
Acoustic_use_draw_first(self, rng, frequency, power, distance, packetSize) ==
    [err |-> Acoustic_perRF(self, distance, frequency, power, packetSize,
                            noise_bw_default).err,
     ret |-> not_random_less(Acoustic_perRF(self, distance, frequency, power,
                                            packetSize, noise_bw_default),
                             rng).ret,
     rng |-> random(rng).rng]

Acoustic_use(self, rng, frequency, power, distance, packetSize) ==
    not_random_less(Acoustic_perRF(self, distance, frequency, power,
                                   packetSize, noise_bw_default), rng)

-----------------------------------------------------------------------------
(* OpticalChannel *)

q == FL(16, -20)

K == FL(138, -25)

lightSpeed == FL(225, 6)

pi == FL(3142, -3)

Optical_init(c, T, S, R, Id, Il, Ar, At, bw, theta) ==
    [err |-> "ok",
     obj |-> << [c |-> c, T |-> T, S |-> S, R |-> R, Id |-> Id, Il |-> Il,
                 Ar |-> Ar, At |-> At, bw |-> bw, theta |-> theta] >>]

Optical_get_propagation_time(self, distance) == Div(distance, lightSpeed)

Optical_snr(self, P, distance, d, beta) ==
    LET p0 == Mul(Mul(Mul(FL(2, 0), P), self.Ar), Cos(beta))
        p1 == Div(p0, Add(Mul(Mul(pi, Square(distance)),
                              Sub(FL(1, 0), Cos(self.theta))),
                          Mul(FL(2, 0), self.At)))
        p  == Mul(p1, Exp(Mul(Neg(self.c), d)))
        thermalNoise == Div(Mul(Mul(Mul(FL(4, 0), K), self.T), self.bw), self.R)
        currentNoise == Mul(Mul(Mul(FL(2, 0), q), Add(self.Id, self.Il)), self.bw)
    IN  Div(Square(Mul(self.S, p)), Add(currentNoise, thermalNoise))

Optical_snr_dB(self, P, distance, d, beta) ==
    Mul(FL(10, 0), Log10(Optical_snr(self, P, distance, d, beta)))

Optical_per(self, P, distance, d, beta, psize) ==
    LET p0 == Mul(Mul(Mul(FL(2, 0), P), self.Ar), Cos(beta))
        p1 == Div(p0, Add(Mul(Mul(pi, Square(distance)),
                              Sub(FL(1, 0), Cos(self.theta))),
                          Mul(FL(2, 0), self.At)))
        p  == Mul(p1, Exp(Mul(Neg(self.c), d)))
        thermalNoise == Div(Mul(Mul(Mul(FL(4, 0), K), self.T), self.bw), self.R)
        currentNoise == Mul(Mul(Mul(FL(2, 0), q), Add(self.Id, self.Il)), self.bw)
        snr == Div(Square(Mul(self.S, p)), Add(currentNoise, thermalNoise))
        ber == Mul(FL(5, -1), Erfc(Sqrt(snr)))
    IN  Sub(FL(1, 0), PowInt(Sub(FL(1, 0), ber), 8 * psize))

Optical_perRF(self, P, distance, d, beta, psize) ==
    LET p0 == Mul(Mul(Mul(FL(2, 0), P), self.Ar), Cos(beta))
        p1 == Div(p0, Add(Mul(Mul(pi, Square(distance)),
                              Sub(FL(1, 0), Cos(self.theta))),
                          Mul(FL(2, 0), self.At)))
        p  == Mul(p1, Exp(Mul(Neg(self.c), d)))
        thermalNoise == Div(Mul(Mul(Mul(FL(4, 0), K), self.T), self.bw), self.R)
        currentNoise == Mul(Mul(Mul(FL(2, 0), q), Add(self.Id, self.Il)), self.bw)
        snr == Div(Square(Mul(self.S, p)), Add(currentNoise, thermalNoise))
        ber == RayleighBer(snr)
    IN  Sub(FL(1, 0), PowInt(Sub(FL(1, 0), ber), 8 * psize))

\* Fault seeded for C2: a draw thrown away before the one compared.
Optical_use_two_draws(self, rng, power, distance, d, beta, psize) ==
    not_random_less(Optical_perRF(self, power, distance, d, beta, psize),
                    random(rng).rng)

Optical_use(self, rng, power, distance, d, beta, psize) ==
    not_random_less(Optical_perRF(self, power, distance, d, beta, psize), rng)

-----------------------------------------------------------------------------
(* The program: one channel of each kind, built once and then used *)

VARIABLES
    ac,        \* the AcousticChannel object: << >> before construction
    oc,        \* the OpticalChannel object: << >> before construction
    rng,       \* the shared random source
    last,      \* the last call: operation, arguments, outcome
    useCalls,  \* use() calls made
    useReturns,\* use() calls that returned a boolean
    runB,      \* a second run of the program (its channels, source, last call)
    pf,        \* an evaluation of per and perRF
    pfPrev     \* the evaluation before it, at a smaller distance or psize

vars == << ac, oc, rng, last, useCalls, useReturns, runB, pf, pfPrev >>

\* Bounds of the model.
MaxCalls == 2

MaxPsize == 2

Zero == FL(0, 0)

Tenths(n) == FL(n, -1)

Hundredths(n) == FL(n, -2)

\* Arguments of AcousticChannel(k, s, w), in tenths: the accepted values of
\* k with s and w inside and on the edges of their ranges, then one argument
\* at a time outside.
AcousticCtorArgs ==
    { << 10, 0, 0 >>, << 15, 5, 0 >>, << 20, 10, 20 >>,
      << 25, 5, 0 >>, << 15, -1, 0 >>, << 15, 11, 0 >>, << 15, 5, -1 >>,
      << 5, 12, -3 >> }

\* The acoustic calls (frequency, power, distance, packetSize): frequency
\* in tenths of a kHz, power in dB, distance in tenths of a metre, packet
\* size in bytes.  A call of 10 kHz over 1 km, with and without payload,
\* then the distances and the frequency that log10 rejects.
AcousticCalls ==
    { << 100, 120, 10000, MaxPsize >>, << 100, 120, 10000, 0 >>,
      << 100, 120, 0, MaxPsize >>, << 100, 120, -10, 0 >>,
      << 0, 120, 10000, MaxPsize >> }

\* The optical channel of the model: the attenuation c in tenths of 1/m,
\* the other parameters those of a photodiode receiver.
OpticalCs == {1}

OpticalObj(cT) ==
    Optical_init(Tenths(cT), FL(300, 0), FL(5, -1), FL(1, 7), FL(1, -9),
                 FL(1, -9), FL(1, -4), FL(1, -4), FL(1, 7), FL(5, -1))

\* The optical calls (power, distance, d, beta, psize): distance and beta
\* in tenths, d in metres.
OpticalCalls == { << 1, 500, 50, 0, MaxPsize >>, << 1, 500, 50, 0, 0 >> }

NoCall == [op |-> "none", args |-> << >>, err |-> "ok", ret |-> FALSE,
           val |-> Zero, at |-> 0]

\* The record of a call that returns (or raises) the float v.
Called(op, args, v) ==
    [op |-> op, args |-> args, err |-> v.err, ret |-> FALSE,
     val |-> IF IsOk(v) THEN v ELSE Zero, at |-> rng.pos]

NoRun == [ac |-> << >>, oc |-> << >>, rng |-> [seed |-> 1, pos |-> 0],
          last |-> NoCall, calls |-> 0]

NoEval == [chan |-> "none", obj |-> << >>, dist |-> 0, psize |-> 0,
           per |-> Zero, perRF |-> Zero]

Init ==
    /\ ac = << >>
    /\ oc = << >>
    /\ rng \in [seed : Seeds, pos : {0}]
    /\ last = NoCall
    /\ useCalls = 0
    /\ useReturns = 0
    /\ runB = NoRun
    /\ pf = NoEval
    /\ pfPrev = NoEval

NewAcoustic(kT, sT, wT) ==
    /\ ac = << >>
    /\ \E r \in {Acoustic_init(Tenths(kT), Tenths(sT), Tenths(wT))} :
           /\ ac' = r.obj
           /\ last' = [op |-> "Acoustic_init", args |-> << kT, sT, wT >>,
                       err |-> r.err, ret |-> FALSE, val |-> Zero,
                       at |-> rng.pos]
    /\ UNCHANGED << oc, rng, useCalls, useReturns, runB, pf, pfPrev >>

NewOptical(cT) ==
    /\ oc = << >>
    /\ \E r \in {OpticalObj(cT)} :
           /\ oc' = r.obj
           /\ last' = [op |-> "Optical_init", args |-> << cT >>,
                       err |-> r.err, ret |-> FALSE, val |-> Zero,
                       at |-> rng.pos]
    /\ UNCHANGED << ac, rng, useCalls, useReturns, runB, pf, pfPrev >>

\* Fault seeded for C5: use keeps the power of the call in the field w.
AcousticUse_keeps_power(fT, P, dT, psize) ==
    /\ ac # << >>
    /\ useCalls < MaxCalls
    /\ \E r \in {Acoustic_use(ac[1], rng, Tenths(fT), FromInt(P), Tenths(dT),
                             psize)} :
           /\ rng' = r.rng
           /\ last' = [op |-> "Acoustic_use", args |-> << fT, P, dT, psize >>,
                       err |-> r.err, ret |-> r.ret, val |-> Zero,
                       at |-> rng.pos]
           /\ useReturns' = IF r.err = "ok" THEN useReturns + 1 ELSE useReturns
    /\ useCalls' = useCalls + 1
    /\ ac' = << [ac[1] EXCEPT !.w = FromInt(P)] >>
    /\ UNCHANGED << oc, runB, pf, pfPrev >>

AcousticUse(fT, P, dT, psize) ==
    /\ ac # << >>
    /\ useCalls < MaxCalls
    /\ \E r \in {Acoustic_use(ac[1], rng, Tenths(fT), FromInt(P), Tenths(dT),
                             psize)} :
           /\ rng' = r.rng
           /\ last' = [op |-> "Acoustic_use", args |-> << fT, P, dT, psize >>,
                       err |-> r.err, ret |-> r.ret, val |-> Zero,
                       at |-> rng.pos]
           /\ useReturns' = IF r.err = "ok" THEN useReturns + 1 ELSE useReturns
    /\ useCalls' = useCalls + 1
    /\ UNCHANGED << ac, oc, runB, pf, pfPrev >>

OpticalUse(P, distT, d, betaT, psize) ==
    /\ oc # << >>
    /\ useCalls < MaxCalls
    /\ \E r \in {Optical_use(oc[1], rng, FromInt(P), Tenths(distT),
                            FromInt(d), Tenths(betaT), psize)} :
           /\ rng' = r.rng
           /\ last' = [op |-> "Optical_use",
                       args |-> << P, distT, d, betaT, psize >>,
                       err |-> r.err, ret |-> r.ret, val |-> Zero,
                       at |-> rng.pos]
           /\ useReturns' = IF r.err = "ok" THEN useReturns + 1 ELSE useReturns
    /\ useCalls' = useCalls + 1
    /\ UNCHANGED << ac, oc, runB, pf, pfPrev >>

\* The calls that only compute: the value (or the exception) is recorded.
Frame == UNCHANGED << ac, oc, rng, useCalls, useReturns, runB, pf, pfPrev >>

AcousticGetPropagationTime(dT) ==
    /\ ac # << >>
    /\ last' = Called("Acoustic_get_propagation_time", << dT >>,
                      Acoustic_get_propagation_time(ac[1], Tenths(dT)))
    /\ Frame

AcousticPathloss(dT, fT) ==
    /\ ac # << >>
    /\ last' = Called("Acoustic_pathloss", << dT, fT >>,
                      Acoustic_pathloss(ac[1], Tenths(dT), Tenths(fT)))
    /\ Frame

AcousticThorp(fT) ==
    /\ ac # << >>
    /\ last' = Called("Acoustic_thorp", << fT >>,
                      Acoustic_thorp(ac[1], Tenths(fT)))
    /\ Frame

AcousticNoise(fT) ==
    /\ ac # << >>
    /\ last' = Called("Acoustic_noise", << fT >>,
                      Acoustic_noise(ac[1], Tenths(fT)))
    /\ Frame

AcousticSnrdB(dT, fT, Pt, psize) ==
    /\ ac # << >>
    /\ last' = Called("Acoustic_snr_dB", << dT, fT, Pt, psize >>,
                      Acoustic_snr_dB(ac[1], Tenths(dT), Tenths(fT),
                                      FromInt(Pt), psize, noise_bw_default))
    /\ Frame

AcousticSnr(dT, fT, Pt, psize) ==
    /\ ac # << >>
    /\ last' = Called("Acoustic_snr", << dT, fT, Pt, psize >>,
                      Acoustic_snr(ac[1], Tenths(dT), Tenths(fT),
                                   FromInt(Pt), psize, noise_bw_default))
    /\ Frame

AcousticPer(dT, fT, Pt, psize) ==
    /\ ac # << >>
    /\ last' = Called("Acoustic_per", << dT, fT, Pt, psize >>,
                      Acoustic_per(ac[1], Tenths(dT), Tenths(fT),
                                   FromInt(Pt), psize, noise_bw_default))
    /\ Frame

AcousticPerRF(dT, fT, Pt, psize) ==
    /\ ac # << >>
    /\ last' = Called("Acoustic_perRF", << dT, fT, Pt, psize >>,
                      Acoustic_perRF(ac[1], Tenths(dT), Tenths(fT),
                                     FromInt(Pt), psize, noise_bw_default))
    /\ Frame

OpticalGetPropagationTime(distT) ==
    /\ oc # << >>
    /\ last' = Called("Optical_get_propagation_time", << distT >>,
                      Optical_get_propagation_time(oc[1], Tenths(distT)))
    /\ Frame

OpticalSnr(P, distT, d, betaT) ==
    /\ oc # << >>
    /\ last' = Called("Optical_snr", << P, distT, d, betaT >>,
                      Optical_snr(oc[1], FromInt(P), Tenths(distT),
                                  FromInt(d), Tenths(betaT)))
    /\ Frame

OpticalSnrdB(P, distT, d, betaT) ==
    /\ oc # << >>
    /\ last' = Called("Optical_snr_dB", << P, distT, d, betaT >>,
                      Optical_snr_dB(oc[1], FromInt(P), Tenths(distT),
                                     FromInt(d), Tenths(betaT)))
    /\ Frame

OpticalPer(P, distT, d, betaT, psize) ==
    /\ oc # << >>
    /\ last' = Called("Optical_per", << P, distT, d, betaT, psize >>,
                      Optical_per(oc[1], FromInt(P), Tenths(distT),
                                  FromInt(d), Tenths(betaT), psize))
    /\ Frame

OpticalPerRF(P, distT, d, betaT, psize) ==
    /\ oc # << >>
    /\ last' = Called("Optical_perRF", << P, distT, d, betaT, psize >>,
                      Optical_perRF(oc[1], FromInt(P), Tenths(distT),
                                    FromInt(d), Tenths(betaT), psize))
    /\ Frame

Next ==
    \/ \E a \in AcousticCtorArgs : NewAcoustic(a[1], a[2], a[3])
    \/ \E cT \in OpticalCs : NewOptical(cT)
    \/ \E c \in AcousticCalls : AcousticUse(c[1], c[2], c[3], c[4])
    \/ \E c \in OpticalCalls : OpticalUse(c[1], c[2], c[3], c[4], c[5])
    \/ \E c \in AcousticCalls : AcousticGetPropagationTime(c[3])
    \/ \E c \in AcousticCalls : AcousticPathloss(c[3], c[1])
    \/ \E c \in AcousticCalls : AcousticThorp(c[1])
    \/ \E c \in AcousticCalls : AcousticNoise(c[1])
    \/ \E c \in AcousticCalls : AcousticSnrdB(c[3], c[1], c[2], c[4])
    \/ \E c \in AcousticCalls : AcousticSnr(c[3], c[1], c[2], c[4])
    \/ \E c \in AcousticCalls : AcousticPer(c[3], c[1], c[2], c[4])
    \/ \E c \in AcousticCalls : AcousticPerRF(c[3], c[1], c[2], c[4])
    \/ \E c \in OpticalCalls : OpticalGetPropagationTime(c[2])
    \/ \E c \in OpticalCalls : OpticalSnr(c[1], c[2], c[3], c[4])
    \/ \E c \in OpticalCalls : OpticalSnrdB(c[1], c[2], c[3], c[4])
    \/ \E c \in OpticalCalls : OpticalPer(c[1], c[2], c[3], c[4], c[5])
    \/ \E c \in OpticalCalls : OpticalPerRF(c[1], c[2], c[3], c[4], c[5])

Spec == Init /\ [][Next]_vars

-----------------------------------------------------------------------------
(* Two runs of the program: channels built with the same parameters, each *)
(* run with its own random source and its own sequence of use() calls     *)

DetAcousticArgs == { << 15, 5, 0 >>, << 20, 10, 20 >> }

\* The use() calls of the two runs: (frequency, power, distance, packetSize)
\* and (power, distance, d, beta, psize), in the units of the calls above.
DetAcousticCalls ==
    { << 100, 120, 10000, MaxPsize >>, << 100, 120, 10000, 0 >>,
      << 100, 120, 0, MaxPsize >> }

DetOpticalCalls == { << 1, 500, 50, 0, MaxPsize >> }

InitDet ==
    /\ \E a \in DetAcousticArgs :
          /\ ac = Acoustic_init(Tenths(a[1]), Tenths(a[2]), Tenths(a[3])).obj
          /\ \E cT \in OpticalCs :
                /\ oc = OpticalObj(cT).obj
                /\ \E sB \in Seeds :
                      runB = [ac |-> ac, oc |-> oc,
                              rng |-> [seed |-> sB, pos |-> 0],
                              last |-> NoCall, calls |-> 0]
    /\ rng \in [seed : Seeds, pos : {0}]
    /\ last = NoCall
    /\ useCalls = 0
    /\ useReturns = 0
    /\ pf = NoEval
    /\ pfPrev = NoEval

AcousticUseB(fT, P, dT, psize) ==
    /\ runB.calls < MaxCalls
    /\ \E r \in {Acoustic_use(runB.ac[1], runB.rng, Tenths(fT), FromInt(P),
                             Tenths(dT), psize)} :
           runB' = [runB EXCEPT
                      !.rng = r.rng,
                      !.last = [op |-> "Acoustic_use",
                                args |-> << fT, P, dT, psize >>,
                                err |-> r.err, ret |-> r.ret, val |-> Zero,
                                at |-> runB.rng.pos],
                      !.calls = @ + 1]
    /\ UNCHANGED << ac, oc, rng, last, useCalls, useReturns, pf, pfPrev >>

OpticalUseB(P, distT, d, betaT, psize) ==
    /\ runB.calls < MaxCalls
    /\ \E r \in {Optical_use(runB.oc[1], runB.rng, FromInt(P), Tenths(distT),
                            FromInt(d), Tenths(betaT), psize)} :
           runB' = [runB EXCEPT
                      !.rng = r.rng,
                      !.last = [op |-> "Optical_use",
                                args |-> << P, distT, d, betaT, psize >>,
                                err |-> r.err, ret |-> r.ret, val |-> Zero,
                                at |-> runB.rng.pos],
                      !.calls = @ + 1]
    /\ UNCHANGED << ac, oc, rng, last, useCalls, useReturns, pf, pfPrev >>

NextDet ==
    \/ \E c \in DetAcousticCalls : AcousticUse(c[1], c[2], c[3], c[4])
    \/ \E c \in DetOpticalCalls : OpticalUse(c[1], c[2], c[3], c[4], c[5])
    \/ \E c \in DetAcousticCalls : AcousticUseB(c[1], c[2], c[3], c[4])
    \/ \E c \in DetOpticalCalls : OpticalUseB(c[1], c[2], c[3], c[4], c[5])

SpecDet == InitDet /\ [][NextDet]_vars

-----------------------------------------------------------------------------
(* per and perRF as functions: an evaluation, then the same call at a     *)
(* larger distance or with a larger packet                                *)

\* The channels evaluated: AcousticChannel(k, s, w) in tenths, and the
\* optical channel of attenuation c in tenths.
PerAcousticArgs == { << 15, 5, 0 >>, << 20, 10, 20 >> }

PerOpticalArgs == { << 1 >> }

\* Distances of the acoustic calls, in tenths of a metre, and of the
\* optical calls, in hundredths.
PerDists == {10, 1144, 1145, 4983, 4984, 10000, 1000000}

PerODists == {100, 3399, 3400, 6053, 6054, 20000}

PerPsizes == 0 .. MaxPsize

\* per and perRF of one call: the acoustic channel at 10 kHz and 120 dB,
\* the optical one at power 1 over a path of 50 m, beta = 0.
AcousticEval(o, dT, psize) ==
    [chan |-> "acoustic", obj |-> o, dist |-> dT, psize |-> psize,
     per |-> Acoustic_per(
                 Acoustic_init(Tenths(o[1]), Tenths(o[2]), Tenths(o[3])).obj[1],
                 Tenths(dT), FL(10, 0), FL(120, 0), psize, noise_bw_default),
     perRF |-> Acoustic_perRF(
                 Acoustic_init(Tenths(o[1]), Tenths(o[2]), Tenths(o[3])).obj[1],
                 Tenths(dT), FL(10, 0), FL(120, 0), psize, noise_bw_default)]

OpticalEval(o, dH, psize) ==
    [chan |-> "optical", obj |-> o, dist |-> dH, psize |-> psize,
     per |-> Optical_per(OpticalObj(o[1]).obj[1], FL(1, 0), Hundredths(dH),
                         FL(50, 0), Zero, psize),
     perRF |-> Optical_perRF(OpticalObj(o[1]).obj[1], FL(1, 0), Hundredths(dH),
                             FL(50, 0), Zero, psize)]

Evaluate(chan, o, dist, psize) ==
    IF chan = "acoustic" THEN AcousticEval(o, dist, psize)
    ELSE OpticalEval(o, dist, psize)

DistsOf(chan) == IF chan = "acoustic" THEN PerDists ELSE PerODists

PerFrame == UNCHANGED << ac, oc, rng, last, useCalls, useReturns, runB >>

EvalAcoustic(o, dT, psize) ==
    /\ pf = NoEval
    /\ pf' = AcousticEval(o, dT, psize)
    /\ pfPrev' = NoEval
    /\ PerFrame

EvalOptical(o, dH, psize) ==
    /\ pf = NoEval
    /\ pf' = OpticalEval(o, dH, psize)
    /\ pfPrev' = NoEval
    /\ PerFrame

\* The same call at a distance at least as large.
GrowDistance(dist) ==
    /\ pf # NoEval
    /\ pfPrev = NoEval
    /\ dist \in DistsOf(pf.chan)
    /\ dist >= pf.dist
    /\ pf' = Evaluate(pf.chan, pf.obj, dist, pf.psize)
    /\ pfPrev' = pf
    /\ PerFrame

\* The same call with a packet at least as large.
GrowPsize(psize) ==
    /\ pf # NoEval
    /\ pfPrev = NoEval
    /\ psize >= pf.psize
    /\ pf' = Evaluate(pf.chan, pf.obj, pf.dist, psize)
    /\ pfPrev' = pf
    /\ PerFrame

NextPer ==
    \/ \E o \in PerAcousticArgs, dT \in PerDists, n \in PerPsizes :
          EvalAcoustic(o, dT, n)
    \/ \E o \in PerOpticalArgs, dH \in PerODists, n \in PerPsizes :
          EvalOptical(o, dH, n)
    \/ \E dist \in PerDists \cup PerODists : GrowDistance(dist)
    \/ \E n \in PerPsizes : GrowPsize(n)

SpecPer == Init /\ [][NextPer]_vars

-----------------------------------------------------------------------------
(* The claims *)

UseOps == {"Acoustic_use", "Optical_use"}

One == FL(1, 0)

\* The arguments (in tenths) that AcousticChannel(k, s, w) accepts.
ValidCtor(a) == a[1] \in {10, 15, 20} /\ 0 <= a[2] /\ a[2] <= 10 /\ a[3] >= 0

\* C1: AcousticChannel(k, s, w) succeeds exactly when k is 1.0, 1.5 or 2.0,
\* 0 <= s <= 1 and w >= 0, and then the object holds k, s and w; otherwise
\* it fails with an AssertionError and there is no channel object.
C1_ConstructionValidated ==
    last.op = "Acoustic_init" =>
        /\ (last.err = "ok") <=> ValidCtor(last.args)
        /\ ValidCtor(last.args) =>
              ac = << [k |-> Tenths(last.args[1]), s |-> Tenths(last.args[2]),
                       w |-> Tenths(last.args[3])] >>
        /\ ~ValidCtor(last.args) =>
              last.err = "AssertionError" /\ ac = << >>

\* A construction with s above 1 has failed and left no object.
C1_Witness ==
    /\ last.op = "Acoustic_init"
    /\ last.args = << 15, 11, 0 >>
    /\ last.err = "AssertionError"
    /\ ac = << >>

\* C2 as stated: every use() call, whatever its arguments, consumes exactly
\* one draw, so after n calls n draws are consumed.
C2_EveryCallOneDraw == rng.pos = useCalls

\* C2 as amended: a use() call that returns a boolean consumes exactly one
\* draw, the next one of the stream, and a call that raises consumes none;
\* the draws consumed are as many as the calls that returned.
C2_ReturningCallOneDraw ==
    /\ rng.pos = useReturns
    /\ useReturns <= useCalls
    /\ last.op \in UseOps =>
          rng.pos = IF last.err = "ok" THEN last.at + 1 ELSE last.at

\* Two calls made, one of them raised: one draw consumed.
C2_Witness ==
    /\ useCalls = 2
    /\ useReturns = 1
    /\ rng.pos = 1
    /\ last.op \in UseOps

\* C3: use returns true exactly when its draw r satisfies r >= perRF, the
\* Rayleigh-fading PER with the default noise_bw, of the arguments of the
\* same meaning: (distance, frequency, power, packetSize) for the acoustic
\* channel and (power, distance, d, beta, psize) for the optical one.
C3_UseComparesDrawWithPerRF ==
    /\ (last.op = "Acoustic_use" /\ last.err = "ok") =>
          last.ret = LessEq(Acoustic_perRF(ac[1], Tenths(last.args[3]),
                                           Tenths(last.args[1]),
                                           FromInt(last.args[2]), last.args[4],
                                           FL(235, -2)),
                            Draw(rng.seed, last.at + 1))
    /\ (last.op = "Optical_use" /\ last.err = "ok") =>
          last.ret = LessEq(Optical_perRF(oc[1], FromInt(last.args[1]),
                                          Tenths(last.args[2]),
                                          FromInt(last.args[3]),
                                          Tenths(last.args[4]), last.args[5]),
                            Draw(rng.seed, last.at + 1))

\* An acoustic use over 1 km has failed on the draw 0.5, which lies between
\* the AWGN per and perRF.
C3_Witness ==
    /\ last.op = "Acoustic_use"
    /\ last.err = "ok"
    /\ last.args[4] = MaxPsize
    /\ Draw(rng.seed, last.at + 1) = FL(5, -1)
    /\ last.ret = FALSE

\* C4: two runs on channels built with the same parameters: a use() call
\* with the same arguments raises in both or in neither, and on the same
\* draw returns the same boolean, whatever calls and draws came before it
\* in either run.
C4_UseDeterministic ==
    (/\ last.op \in UseOps
     /\ runB.last.op = last.op
     /\ runB.last.args = last.args) =>
        /\ runB.last.err = last.err
        /\ (/\ last.err = "ok"
            /\ Draw(runB.rng.seed, runB.last.at + 1)
                 = Draw(rng.seed, last.at + 1)) =>
              runB.last.ret = last.ret

\* The same call on the same draw, at different places of different
\* streams, after different earlier calls.
C4_Witness ==
    /\ last.op = "Acoustic_use"
    /\ runB.last.op = last.op
    /\ runB.last.args = last.args
    /\ last.err = "ok"
    /\ last.args[4] = MaxPsize
    /\ runB.rng.seed # rng.seed
    /\ runB.last.at # last.at
    /\ Draw(runB.rng.seed, runB.last.at + 1) = Draw(rng.seed, last.at + 1)

\* C5: once a channel is constructed no call changes its fields, which are
\* the values given to the constructor; only use() moves the random source,
\* and only its position.
C5_FieldsNeverChange ==
    [][/\ ac # << >> => ac' = ac
       /\ oc # << >> => oc' = oc
       /\ (ac = << >> /\ ac' # << >>) =>
             /\ last'.op = "Acoustic_init"
             /\ ac' = << [k |-> Tenths(last'.args[1]),
                          s |-> Tenths(last'.args[2]),
                          w |-> Tenths(last'.args[3])] >>
       /\ (oc = << >> /\ oc' # << >>) =>
             /\ last'.op = "Optical_init"
             /\ oc' = OpticalObj(last'.args[1]).obj
       /\ rng'.seed = rng.seed
       /\ rng' # rng => last'.op \in UseOps]_vars

\* Both channels constructed and used.
C5_Witness ==
    /\ ac # << >>
    /\ oc # << >>
    /\ useCalls = MaxCalls
    /\ useReturns >= 1
    /\ last.op = "Acoustic_use"

\* C6: with psize = 0, per and perRF of both channels return 0 whenever
\* they return, and use() returns true on every draw.
C6_EmptyPacketNeverFails ==
    /\ (/\ last.op \in {"Acoustic_per", "Acoustic_perRF"}
        /\ last.args[4] = 0
        /\ last.err = "ok") => last.val = Zero
    /\ (/\ last.op \in {"Optical_per", "Optical_perRF"}
        /\ last.args[5] = 0
        /\ last.err = "ok") => last.val = Zero
    /\ (last.op = "Acoustic_use" /\ last.args[4] = 0 /\ last.err = "ok") =>
          last.ret = TRUE
    /\ (last.op = "Optical_use" /\ last.args[5] = 0 /\ last.err = "ok") =>
          last.ret = TRUE

\* An acoustic use with an empty packet has succeeded on the draw 0.0.
C6_Witness ==
    /\ last.op = "Acoustic_use"
    /\ last.args[4] = 0
    /\ last.err = "ok"
    /\ Draw(rng.seed, last.at + 1) = Zero
    /\ last.ret = TRUE

\* C7: the values per and perRF return lie in [0, 1].
C7_PerInUnitInterval ==
    pf # NoEval =>
        /\ IsOk(pf.per) => LessEq(Zero, pf.per) /\ LessEq(pf.per, One)
        /\ IsOk(pf.perRF) => LessEq(Zero, pf.perRF) /\ LessEq(pf.perRF, One)

\* An acoustic evaluation with a payload whose perRF is strictly inside.
C7_Witness ==
    /\ pf.chan = "acoustic"
    /\ pf.psize = MaxPsize
    /\ IsOk(pf.perRF)
    /\ Less(Zero, pf.perRF)
    /\ Less(pf.perRF, One)

\* Both evaluations returned a value.
BothOk ==
    /\ pfPrev # NoEval
    /\ IsOk(pfPrev.per) /\ IsOk(pf.per)
    /\ IsOk(pfPrev.perRF) /\ IsOk(pf.perRF)

Ulp == FL(1, -3)

RoundingOf(psize) == Mul(FromInt(16 * psize + 4), Ulp)

C9_SnrIsLinearScale ==
    (/\ last.op = "Acoustic_snr"
     /\ last.args[1] > 0
     /\ last.args[2] > 0) =>
        /\ last.err = "ok"
        /\ last.val = Pow10(Div(Acoustic_snr_dB(ac[1], Tenths(last.args[1]),
                                                Tenths(last.args[2]),
                                                FromInt(last.args[3]),
                                                last.args[4], FL(235, -2)),
                                FL(10, 0)))

\* C10: an acoustic use() whose distance or frequency is <= 0 raises the
\* ValueError of log10, returns no boolean and leaves the random source
\* where it was, for the calls that follow.
C10_DomainErrorConsumesNoDraw ==
    (/\ last.op = "Acoustic_use"
     /\ (last.args[3] <= 0 \/ last.args[1] <= 0)) =>
        /\ last.err = "ValueError"
        /\ rng.pos = last.at
        /\ rng.pos = useReturns

\* A use() at distance 0 after a use() that returned: the source is where
\* the first call left it.
C10_Witness ==
    /\ last.op = "Acoustic_use"
    /\ last.args[3] = 0
    /\ last.err = "ValueError"
    /\ useReturns = 1
    /\ rng.pos = 1

====
